---- MODULE Spec2Model ----
(***************************************************************************)
(* Model of dband.py: the d-band DOS analysis script.                      *)
(*                                                                         *)
(* One run is either main() (which calls analyze_d_band_properties with    *)
(* its two configuration constants and then reports) or a direct call of   *)
(* analyze_d_band_properties(path, target_site_index) by an importer.      *)
(*                                                                         *)
(* Floating point quantities (energies in eV, fillings, moments) are       *)
(* fixed-point integers counted in units of 10^-5: -2.0 eV is -200000.     *)
(* The pymatgen library is the environment: what Vasprun(path) does with   *)
(* the file and what each get_band_* call returns are inputs chosen from   *)
(* small sets.                                                             *)
(***************************************************************************)
EXTENDS Integers, Sequences, FiniteSets, TLC

VARIABLES
    entry,              \* "main" (run as a script) or "direct" (function called by an importer)
    file_status,        \* what Vasprun(path) will meet: "ok", "missing", "malformed", "no_dos"
    file_sites,         \* number of sites of the structure stored in the file
    target_site_index,  \* argument of analyze_d_band_properties
    pc,                 \* position of the run
    fermi_energy,       \* local of analyze_d_band_properties (line 44)
    crystal_structure,  \* local of analyze_d_band_properties (line 46)
    target_site,        \* local of analyze_d_band_properties (line 60)
    locals,             \* the ten d_band_* locals assigned so far (lines 68-138)
    calls,              \* log of the get_band_* invocations made on complete_dos_data
    analysis_results,   \* what analyze_d_band_properties returned (NotReturned before)
    exception,          \* the exception that terminated the run, "none" otherwise
    stdout,             \* the lines printed so far
    report_calls        \* number of invocations of print_analysis_results

vars == <<entry, file_status, file_sites, target_site_index, pc,
          fermi_energy, crystal_structure, target_site, locals, calls,
          analysis_results, exception, stdout, report_calls>>

----------------------------------------------------------------------------
(* Bounds and input domains *)

MaxSites == 2

\* fixed-point unit: values are counted in 10^-5
Unit == 10^5

\* site counts met by a direct call, and by main() (whose index is TARGET_SITE_INDEX)
DirectSiteCounts == 1..MaxSites
DirectIndices == (0 - (MaxSites + 1))..(MaxSites + 1)

FileStatuses == {"ok", "missing", "malformed", "no_dos"}

\* the Fermi energy stored in the file (3.14159 eV)
FileFermi == 3 * Unit + 14159

\* element label of the i-th site (0-indexed) of the file's structure
FileElement(i) == IF i % 2 = 0 THEN "Fe" ELSE "O"

\* values the library may return for a band center (eV * 10^5)
CenterValues == {-3 * Unit, -2 * Unit - 1, -2 * Unit, -2 * Unit + 10000,
                 -1 * Unit, -1 * Unit + 1}

\* values the library may return for a band filling
FillingValues == {40000, 50000, 50001}

----------------------------------------------------------------------------
(* Python values *)

None == [none |-> TRUE]
NotReturned == [pending |-> TRUE]

Abs(x) == IF x < 0 THEN 0 - x ELSE x

\* round n/d to the nearest integer, ties to even: what a ".Nf" format
\* does to the decimal value it is given (d > 0)
RoundHalfEven(n, d) ==
    LET q == n \div d
        r == n % d
    IN  IF 2 * r < d THEN q
        ELSE IF 2 * r > d THEN q + 1
        ELSE IF q % 2 = 0 THEN q ELSE q + 1

\* f"{v:.4f}" and f"{v:.3f}" of a value v counted in 10^-5: the number of
\* 10^-4 (resp. 10^-3) printed
Fmt4(v) == RoundHalfEven(v, 10)
Fmt3(v) == RoundHalfEven(v, 100)

\* a printed line: a tag for its fixed text, the numbers and the label it shows
Line(tag, nums, text) == [tag |-> tag, nums |-> nums, text |-> text]

\* len(crystal_structure)
PyLen(structure) == Len(structure.sites)

\* does structure[i] raise IndexError (Python sequence subscript)
PyIndexError(structure, i) == i >= PyLen(structure) \/ i < 0 - PyLen(structure)

\* structure[i] when it does not raise: negative i counts from the end
PyGetItem(structure, i) ==
    IF i < 0 THEN structure.sites[PyLen(structure) + i + 1]
    ELSE structure.sites[i + 1]

\* the Structure that Vasprun parses out of a file of n sites
ParsedStructure(n) ==
    [sites |-> [k \in 1..n |-> [index |-> k - 1, species_string |-> FileElement(k - 1)]]]

----------------------------------------------------------------------------
(* Configuration constants of the script *)

ENERGY_RANGE_FULL == <<-15, 15>>
ENERGY_RANGE_OCCUPIED == <<-15, 0>>
ORBITAL_TYPE == "d"
TARGET_SITE_INDEX == 161

\* 0.1 eV, 0.1 muB, -2.0 eV and -1.0 eV, counted in 10^-5
SPLITTING_THRESHOLD == 10000
MOMENT_THRESHOLD == 10000
DEEP_CENTER == -200000
SHALLOW_CENTER == -100000

\* the erange argument of a call that passes none
NoRange == <<>>

\* site counts of the file main() may meet: one short of holding site 161, and holding it
MainSiteCounts == {TARGET_SITE_INDEX, TARGET_SITE_INDEX + 1}

----------------------------------------------------------------------------
(* Exceptions *)

\* what Vasprun(path) and the attribute reads of lines 43-46 raise
LoadException(status) ==
    CASE status = "missing" -> "FileNotFoundError"
      [] status = "malformed" -> "ParseError"
      [] status = "no_dos" -> "AttributeError"

\* every exception class met here derives from Exception
ExceptionClasses == {"FileNotFoundError", "ParseError", "AttributeError",
                     "IndexError", "LibraryError", "TypeError"}

ExceptClause_OnlyMissingFile(e) == e = "FileNotFoundError"

\* "except Exception as e" (line 51)
ExceptClause(e) == e \in ExceptionClasses

InTryBlock_WholeFunction(stage) == TRUE

\* the statements the try of line 42 encloses (lines 43-49)
InTryBlock(stage) == stage = "load"

\* an exception e raised in stage: lines 51-53 when the handler applies,
\* otherwise it leaves analyze_d_band_properties, and main, uncaught
Raise(stage, e, out) ==
    IF InTryBlock(stage) /\ ExceptClause(e)
    THEN /\ stdout' = Append(out, Line("error_reading", <<>>, e))
         /\ analysis_results' = None
         /\ pc' = "returned"
         /\ exception' = exception
    ELSE /\ stdout' = out
         /\ analysis_results' = analysis_results
         /\ pc' = "raised"
         /\ exception' = e

----------------------------------------------------------------------------
(* The Analyzer: the ten library calls and the result record *)

Call(var, fn, spin, erange) ==
    [var |-> var, fn |-> fn, spin |-> spin, erange |-> erange, band |-> ORBITAL_TYPE]

\* the calls of lines 68-138 in program order, with the local each is assigned to
DescriptorCalls == <<
    Call("d_band_center_spin_up",     "get_band_center",   "up",   ENERGY_RANGE_FULL),
    Call("d_band_center_spin_down",   "get_band_center",   "down", ENERGY_RANGE_FULL),
    Call("d_band_filling_spin_up",    "get_band_filling",  "up",   NoRange),
    Call("d_band_filling_spin_down",  "get_band_filling",  "down", NoRange),
    Call("d_band_skewness_spin_up",   "get_band_skewness", "up",   ENERGY_RANGE_FULL),
    Call("d_band_skewness_spin_down", "get_band_skewness", "down", ENERGY_RANGE_FULL),
    Call("d_band_kurtosis_spin_up",   "get_band_kurtosis", "up",   ENERGY_RANGE_FULL),
    Call("d_band_kurtosis_spin_down", "get_band_kurtosis", "down", ENERGY_RANGE_FULL),
    Call("d_band_width_spin_up",      "get_band_width",    "up",   ENERGY_RANGE_OCCUPIED),
    Call("d_band_width_spin_down",    "get_band_width",    "down", ENERGY_RANGE_OCCUPIED) >>

\* the values the library may return to a call (its result depends on the DOS
\* of the file, which is an input)
LibReturns(fn, spin) ==
    CASE fn = "get_band_center" -> CenterValues
      [] fn = "get_band_filling" -> FillingValues
      [] fn = "get_band_skewness" -> IF spin = "up" THEN {-25000, 31000} ELSE {31000}
      [] fn = "get_band_kurtosis" -> IF spin = "up" THEN {300000} ELSE {300000, 275000}
      [] fn = "get_band_width" -> IF spin = "up" THEN {410000, 520000} ELSE {410000}

Results_SpinSwapped(fermi, index, site, l) ==
    [fermi_energy  |-> fermi,
     site_index    |-> index,
     site_element  |-> site.species_string,
     band_centers  |-> [spin_up |-> l["d_band_center_spin_up"],
                        spin_down |-> l["d_band_center_spin_down"]],
     band_fillings |-> [spin_up |-> l["d_band_filling_spin_up"],
                        spin_down |-> l["d_band_filling_spin_down"]],
     band_skewness |-> [spin_up |-> l["d_band_skewness_spin_up"],
                        spin_down |-> l["d_band_skewness_spin_down"]],
     band_kurtosis |-> [spin_up |-> l["d_band_kurtosis_spin_up"],
                        spin_down |-> l["d_band_kurtosis_spin_down"]],
     band_widths   |-> [spin_up |-> l["d_band_width_spin_down"],
                        spin_down |-> l["d_band_width_spin_up"]]]

\* the dictionary of lines 141-165
Results(fermi, index, site, l) ==
    [fermi_energy  |-> fermi,
     site_index    |-> index,
     site_element  |-> site.species_string,
     band_centers  |-> [spin_up |-> l["d_band_center_spin_up"],
                        spin_down |-> l["d_band_center_spin_down"]],
     band_fillings |-> [spin_up |-> l["d_band_filling_spin_up"],
                        spin_down |-> l["d_band_filling_spin_down"]],
     band_skewness |-> [spin_up |-> l["d_band_skewness_spin_up"],
                        spin_down |-> l["d_band_skewness_spin_down"]],
     band_kurtosis |-> [spin_up |-> l["d_band_kurtosis_spin_up"],
                        spin_down |-> l["d_band_kurtosis_spin_down"]],
     band_widths   |-> [spin_up |-> l["d_band_width_spin_up"],
                        spin_down |-> l["d_band_width_spin_down"]]]

----------------------------------------------------------------------------
(* The Reporter *)

MagneticMoment_FromPrintedFillings(results) ==
    10 * (Fmt4(results.band_fillings.spin_up) - Fmt4(results.band_fillings.spin_down))

\* magnetic_moment (lines 222-223)
MagneticMoment(results) ==
    results.band_fillings.spin_up - results.band_fillings.spin_down

SpinSplitting_Inclusive(center_up, center_down) ==
    Abs(center_up - center_down) >= SPLITTING_THRESHOLD

\* the condition of line 232
SpinSplitting(center_up, center_down) ==
    Abs(center_up - center_down) > SPLITTING_THRESHOLD

IsMagnetic_Signed(magnetic_moment) == magnetic_moment > MOMENT_THRESHOLD

\* the condition of line 235
IsMagnetic(magnetic_moment) == Abs(magnetic_moment) > MOMENT_THRESHOLD

\* avg_center (line 238), counted in halves of the unit so that the
\* division by 2 loses nothing: the value is (center_up + center_down) / 2
AvgCenterHalves(center_up, center_down) == center_up + center_down

BondingComment_Inclusive(avg_halves) ==
    IF avg_halves <= 2 * DEEP_CENTER THEN "deep"
    ELSE IF avg_halves >= 2 * SHALLOW_CENTER THEN "shallow"
    ELSE "none"

\* the if / elif of lines 239-242
BondingComment(avg_halves) ==
    IF avg_halves < 2 * DEEP_CENTER THEN "deep"
    ELSE IF avg_halves > 2 * SHALLOW_CENTER THEN "shallow"
    ELSE "none"

\* one row of the descriptor table (lines 201-219)
Row(tag, pair) == Line(tag, <<Fmt4(pair.spin_up), Fmt4(pair.spin_down)>>, "")

\* the lines print_analysis_results(results, crystal_structure) prints
print_analysis_results(results, structure) ==
    LET magnetic_moment == MagneticMoment(results)
        center_up == results.band_centers.spin_up
        center_down == results.band_centers.spin_down
        avg_halves == AvgCenterHalves(center_up, center_down)
        comment == BondingComment(avg_halves)
    IN  << Line("banner", <<>>, ""),
           Line("title", <<>>, ""),
           Line("banner", <<>>, ""),
           Line("crystal_structure_header", <<>>, ""),
           Line("crystal_structure", <<PyLen(structure)>>, ""),
           Line("target_site_header", <<>>, ""),
           Line("site_index", <<results.site_index>>, ""),
           Line("element", <<>>, results.site_element),
           Line("fermi_energy", <<Fmt4(results.fermi_energy)>>, ""),
           Line("properties_header", <<>>, ""),
           Line("columns", <<>>, ""),
           Line("rule", <<>>, ""),
           Row("band_center", results.band_centers),
           Row("band_filling", results.band_fillings),
           Row("band_skewness", results.band_skewness),
           Row("band_kurtosis", results.band_kurtosis),
           Row("band_width", results.band_widths),
           Line("magnetic_header", <<>>, ""),
           Line("magnetic_moment", <<Fmt4(magnetic_moment)>>, ""),
           Line("insights_header", <<>>, "") >>
        \o (IF SpinSplitting(center_up, center_down)
            THEN << Line("spin_splitting", <<Fmt3(Abs(center_up - center_down))>>, "") >>
            ELSE << >>)
        \o (IF IsMagnetic(magnetic_moment)
            THEN << Line("magnetic_material", <<Fmt3(magnetic_moment)>>, "") >>
            ELSE << >>)
        \o (IF comment = "deep"
            THEN << Line("deep_center", <<RoundHalfEven(avg_halves, 200)>>, "") >>
            ELSE IF comment = "shallow"
            THEN << Line("shallow_center", <<RoundHalfEven(avg_halves, 200)>>, "") >>
            ELSE << >>)

----------------------------------------------------------------------------
(* The run *)

IndexExceeds_OffByOne(index, structure) == index > PyLen(structure)

\* the condition of line 56
IndexExceeds(index, structure) == index >= PyLen(structure)

IsFailure_Never(returned) == FALSE

\* "analysis_results is None" (line 258)
IsFailure(returned) == returned = None

Init ==
    /\ entry \in {"main", "direct"}
    /\ file_status \in FileStatuses
    /\ \/ /\ entry = "main"
          /\ target_site_index = TARGET_SITE_INDEX
          /\ file_sites \in MainSiteCounts
       \/ /\ entry = "direct"
          /\ target_site_index \in DirectIndices
          /\ file_sites \in DirectSiteCounts
    /\ pc = "load"
    /\ fermi_energy = None
    /\ crystal_structure = None
    /\ target_site = None
    /\ locals = << >>
    /\ calls = << >>
    /\ analysis_results = NotReturned
    /\ exception = "none"
    /\ stdout = << >>
    /\ report_calls = 0

\* lines 37-53: the progress lines, then the try block that parses the file
Load ==
    /\ pc = "load"
    /\ LET out == stdout \o << Line("reading", <<>>, ""),
                               Line("analyzing_site", <<target_site_index>>, ""),
                               Line("rule", <<>>, "") >>
       IN  IF file_status = "ok"
           THEN /\ fermi_energy' = FileFermi
                /\ crystal_structure' = ParsedStructure(file_sites)
                /\ stdout' = out \o << Line("fermi_energy", <<Fmt4(FileFermi)>>, ""),
                                       Line("number_of_sites", <<file_sites>>, "") >>
                /\ pc' = "validate"
                /\ UNCHANGED <<analysis_results, exception>>
           ELSE /\ Raise("load", LoadException(file_status), out)
                /\ UNCHANGED <<fermi_energy, crystal_structure>>
    /\ UNCHANGED <<entry, file_status, file_sites, target_site_index, target_site,
                   locals, calls, report_calls>>

\* lines 55-58: the bounds check on the site index
Validate ==
    /\ pc = "validate"
    /\ IF IndexExceeds(target_site_index, crystal_structure)
       THEN /\ stdout' = Append(stdout, Line("error_site_index",
                                   <<target_site_index, PyLen(crystal_structure)>>, ""))
            /\ analysis_results' = None
            /\ pc' = "returned"
       ELSE /\ pc' = "lookup"
            /\ UNCHANGED <<stdout, analysis_results>>
    /\ UNCHANGED <<entry, file_status, file_sites, target_site_index, fermi_energy,
                   crystal_structure, target_site, locals, calls, exception, report_calls>>

\* lines 60-65: the site is read from the structure and announced
SiteLookup ==
    /\ pc = "lookup"
    /\ IF PyIndexError(crystal_structure, target_site_index)
       THEN /\ Raise("lookup", "IndexError", stdout)
            /\ UNCHANGED target_site
       ELSE /\ target_site' = PyGetItem(crystal_structure, target_site_index)
            /\ stdout' = stdout \o << Line("target_element", <<>>, target_site'.species_string),
                                      Line("target_coordinates", <<target_site'.index>>, ""),
                                      Line("calculating", <<>>, "") >>
            /\ pc' = "calls"
            /\ UNCHANGED <<analysis_results, exception>>
    /\ UNCHANGED <<entry, file_status, file_sites, target_site_index, fermi_energy,
                   crystal_structure, locals, calls, report_calls>>

\* the invocation record of call c on complete_dos_data
Invocation(c, site, raised, ret) ==
    [fn |-> c.fn, sites |-> <<site>>, spin |-> c.spin, erange |-> c.erange,
     band |-> c.band, raised |-> raised, ret |-> ret]

\* lines 68-138: the next library call returns a value, which is assigned to its local
GetDescriptor ==
    /\ pc = "calls"
    /\ Len(calls) < Len(DescriptorCalls)
    /\ LET c == DescriptorCalls[Len(calls) + 1]
       IN  \E v \in LibReturns(c.fn, c.spin) :
             /\ calls' = Append(calls, Invocation(c, target_site, FALSE, v))
             /\ locals' = locals @@ (c.var :> v)
             /\ pc' = IF Len(calls') = Len(DescriptorCalls) THEN "assemble" ELSE "calls"
    /\ UNCHANGED <<entry, file_status, file_sites, target_site_index, fermi_energy,
                   crystal_structure, target_site, analysis_results, exception,
                   stdout, report_calls>>

\* lines 68-138: the next library call raises (the file has no usable d
\* projection for the site, say)
DescriptorRaises ==
    /\ pc = "calls"
    /\ Len(calls) < Len(DescriptorCalls)
    /\ LET c == DescriptorCalls[Len(calls) + 1]
       IN  calls' = Append(calls, Invocation(c, target_site, TRUE, 0))
    /\ Raise("descriptors", "LibraryError", stdout)
    /\ UNCHANGED <<entry, file_status, file_sites, target_site_index, fermi_energy,
                   crystal_structure, target_site, locals, report_calls>>

\* lines 141-167: the dictionary is built and returned with the structure
Assemble ==
    /\ pc = "assemble"
    /\ analysis_results' =
          [results |-> Results(fermi_energy, target_site_index, target_site, locals),
           structure |-> crystal_structure]
    /\ pc' = "returned"
    /\ UNCHANGED <<entry, file_status, file_sites, target_site_index, fermi_energy,
                   crystal_structure, target_site, locals, calls, exception,
                   stdout, report_calls>>

\* lines 258-265 of main: the None check, the unpacking and the report
main ==
    /\ pc = "returned"
    /\ entry = "main"
    /\ IF IsFailure(analysis_results)
       THEN /\ stdout' = Append(stdout, Line("analysis_failed", <<>>, ""))
            /\ pc' = "done"
            /\ UNCHANGED <<exception, report_calls>>
       ELSE IF analysis_results = None
       THEN \* "results, structure = None" raises TypeError
            /\ pc' = "raised"
            /\ exception' = "TypeError"
            /\ UNCHANGED <<stdout, report_calls>>
       ELSE /\ report_calls' = report_calls + 1
            /\ stdout' = stdout \o print_analysis_results(analysis_results.results,
                                                          analysis_results.structure)
            /\ pc' = "done"
            /\ UNCHANGED exception
    /\ UNCHANGED <<entry, file_status, file_sites, target_site_index, fermi_energy,
                   crystal_structure, target_site, locals, calls, analysis_results>>

Next ==
    \/ Load
    \/ Validate
    \/ SiteLookup
    \/ GetDescriptor
    \/ DescriptorRaises
    \/ Assemble
    \/ main

Spec == Init /\ [][Next]_vars

----------------------------------------------------------------------------
(* Observations used by the properties *)

CountLines(tag) == Cardinality({i \in DOMAIN stdout : stdout[i].tag = tag})
Printed(tag) == CountLines(tag) > 0
TheLine(tag) == stdout[CHOOSE i \in DOMAIN stdout : stdout[i].tag = tag]

\* the value the library returned to the call of fn for spin
Invoked(fn, spin) == \E i \in DOMAIN calls : calls[i].fn = fn /\ calls[i].spin = spin
RetOf(fn, spin) ==
    calls[CHOOSE i \in DOMAIN calls : calls[i].fn = fn /\ calls[i].spin = spin].ret

Loaded == file_status = "ok"
Returned == pc \in {"returned", "done"}
ReturnedNone == Returned /\ analysis_results = None
Succeeded == Returned /\ analysis_results \notin {None, NotReturned}
Reported == pc = "done" /\ report_calls > 0
AnalyzerRan == target_site # None \/ calls # << >> \/ pc \in {"calls", "assemble"}

----------------------------------------------------------------------------
(* Properties *)

\* C1: when the file loads and target_site_index >= number of sites, the call
\* returns None, and neither the site lookup nor any get_band_* call happens.
C1_OutOfRangeReturnsNone ==
    (Loaded /\ target_site_index >= file_sites) =>
        /\ calls = << >>
        /\ target_site = None
        /\ pc \in {"load", "validate", "returned", "done"}
        /\ Returned => analysis_results = None /\ CountLines("error_site_index") = 1

C1_Witness ==
    /\ Loaded /\ target_site_index >= file_sites
    /\ pc = "returned" /\ analysis_results = None
    /\ Printed("error_site_index")

\* C2: when parsing the file fails (missing, malformed, no DOS section) the
\* failure is caught inside analyze_d_band_properties: one error line is
\* printed, None is returned, nothing propagates and no get_band_* call happens.
C2_LoadFailureReturnsNone ==
    ~Loaded =>
        /\ calls = << >>
        /\ exception = "none"
        /\ pc \in {"load", "returned", "done"}
        /\ Returned => /\ analysis_results = None
                       /\ CountLines("error_reading") = 1
                       /\ TheLine("error_reading").text = LoadException(file_status)

C2_Witness ==
    /\ file_status = "no_dos"
    /\ pc = "returned" /\ analysis_results = None
    /\ Printed("error_reading")

\* C3: in main, a None result prints the diagnostic once, never invokes
\* print_analysis_results and returns normally; a successful result prints the
\* report exactly once and returns normally; main never raises after
\* analyze_d_band_properties has returned.
C3_MainExit ==
    /\ (entry = "main" /\ pc = "done") =>
          /\ exception = "none"
          /\ IF analysis_results = None
             THEN /\ CountLines("analysis_failed") = 1
                  /\ report_calls = 0
                  /\ ~Printed("title")
             ELSE /\ CountLines("analysis_failed") = 0
                  /\ report_calls = 1
                  /\ CountLines("title") = 1
    /\ (entry = "main" /\ pc = "returned") => report_calls = 0 /\ exception = "none"

C3_MainReturns ==
    [](C3_MainExit) /\ [][(entry = "main" /\ pc = "returned") => pc' = "done"]_vars

C3_Witness ==
    /\ entry = "main" /\ pc = "done"
    /\ Loaded /\ analysis_results = None
    /\ Printed("analysis_failed") /\ report_calls = 0

\* C4: the moment the report shows, and the one the magnetic-material flag
\* tests, is spin_up minus spin_down of the fillings the Analyzer obtained from
\* the library, and the record reaches the Reporter as the Analyzer built it.
C4_MomentIsFillingDifference ==
    Reported =>
        LET up == RetOf("get_band_filling", "up")
            down == RetOf("get_band_filling", "down")
        IN  /\ analysis_results.results.band_fillings = [spin_up |-> up, spin_down |-> down]
            /\ CountLines("magnetic_moment") = 1
            /\ TheLine("magnetic_moment").nums = <<Fmt4(up - down)>>
            /\ Printed("magnetic_material") <=> Abs(up - down) > MOMENT_THRESHOLD
            /\ Printed("magnetic_material") =>
                  TheLine("magnetic_material").nums = <<Fmt3(up - down)>>

C4_Witness ==
    /\ Reported
    /\ RetOf("get_band_filling", "up") = 50001
    /\ RetOf("get_band_filling", "down") = 40000
    /\ TheLine("magnetic_moment").nums = <<1000>>
    /\ Printed("magnetic_material")

\* C5: with average = (center_up + center_down) / 2, the deep comment is printed
\* iff average < -2.0, the shallow comment iff average > -1.0, neither when
\* -2.0 <= average <= -1.0, and never both.
C5_BondingComment ==
    Reported =>
        LET sum == analysis_results.results.band_centers.spin_up
                     + analysis_results.results.band_centers.spin_down
        IN  /\ Printed("deep_center") <=> sum < 2 * DEEP_CENTER
            /\ Printed("shallow_center") <=> sum > 2 * SHALLOW_CENTER
            /\ (2 * DEEP_CENTER <= sum /\ sum <= 2 * SHALLOW_CENTER) =>
                  ~Printed("deep_center") /\ ~Printed("shallow_center")
            /\ ~(Printed("deep_center") /\ Printed("shallow_center"))
            /\ CountLines("deep_center") + CountLines("shallow_center") <= 1

C5_Witness ==
    /\ Reported
    /\ analysis_results.results.band_centers = [spin_up |-> DEEP_CENTER, spin_down |-> DEEP_CENTER]
    /\ ~Printed("deep_center") /\ ~Printed("shallow_center")

\* C6: the spin-splitting line is printed iff |center_up - center_down| > 0.1,
\* whatever the magnetic flag and the bonding comment are; centers -2 and -1
\* print it and print no bonding comment.
C6_SpinSplitting ==
    Reported =>
        LET up == analysis_results.results.band_centers.spin_up
            down == analysis_results.results.band_centers.spin_down
        IN  /\ Printed("spin_splitting") <=> Abs(up - down) > SPLITTING_THRESHOLD
            /\ Printed("spin_splitting") =>
                  TheLine("spin_splitting").nums = <<Fmt3(Abs(up - down))>>
            /\ (up = -2 * Unit /\ down = -1 * Unit) =>
                  /\ Printed("spin_splitting")
                  /\ ~Printed("deep_center") /\ ~Printed("shallow_center")

C6_Witness ==
    /\ Reported
    /\ analysis_results.results.band_centers = [spin_up |-> -2 * Unit, spin_down |-> -1 * Unit]
    /\ Printed("spin_splitting")
    /\ ~Printed("magnetic_material")
    /\ ~Printed("deep_center") /\ ~Printed("shallow_center")

\* C7: the magnetic-material line is printed iff |filling_up - filling_down| > 0.1:
\* not at a moment of exactly 0.1 or -0.1, and also for a moment below -0.1.
C7_MagneticFlag ==
    Reported =>
        LET moment == analysis_results.results.band_fillings.spin_up
                        - analysis_results.results.band_fillings.spin_down
        IN  /\ Printed("magnetic_material") <=> (moment > 10000 \/ moment < -10000)
            /\ moment \in {10000, -10000} => ~Printed("magnetic_material")
            /\ moment < -10000 => Printed("magnetic_material")

C7_Witness ==
    /\ Reported
    /\ analysis_results.results.band_fillings = [spin_up |-> 40000, spin_down |-> 50001]
    /\ Printed("magnetic_material")

\* C8: whenever the Analyzer stage runs (the site is read, or a get_band_* call
\* is made), 0 <= target_site_index < number of sites.
C8_SiteIndexInRange ==
    AnalyzerRan => (0 <= target_site_index /\ target_site_index < file_sites)

\* C9: None is returned only for a load failure or for an index >= site count;
\* an exception of the site lookup or of a get_band_* call is not caught: it ends
\* the run with neither the report nor the "Analysis failed" line.
C9_OnlyTwoFailuresHandled ==
    /\ ReturnedNone => (~Loaded \/ target_site_index >= file_sites)
    /\ (calls # << >> /\ calls[Len(calls)].raised) =>
          pc = "raised" /\ exception = "LibraryError"
    /\ (Loaded /\ target_site_index < 0 - file_sites /\ pc \notin {"load", "validate", "lookup"}) =>
          pc = "raised" /\ exception = "IndexError"
    /\ pc = "raised" =>
          /\ exception \in {"IndexError", "LibraryError"}
          /\ analysis_results = NotReturned
          /\ report_calls = 0
          /\ ~Printed("analysis_failed") /\ ~Printed("error_reading") /\ ~Printed("title")

C9_Witness ==
    /\ entry = "main"
    /\ pc = "raised" /\ exception = "LibraryError"
    /\ Len(calls) = 6 /\ calls[6].raised
    /\ analysis_results = NotReturned

\* C10: a successful run makes exactly ten get_band_* calls, one per descriptor
\* and spin, all for the one looked-up site and the d orbital: center, skewness
\* and kurtosis over [-15, 15], width over [-15, 0], filling with no window; each
\* returned value is stored under its own descriptor and spin, and site_index is
\* the input index.
C10_Key(fn) ==
    CASE fn = "get_band_center" -> "band_centers"
      [] fn = "get_band_filling" -> "band_fillings"
      [] fn = "get_band_skewness" -> "band_skewness"
      [] fn = "get_band_kurtosis" -> "band_kurtosis"
      [] fn = "get_band_width" -> "band_widths"

C10_Window(fn) ==
    CASE fn \in {"get_band_center", "get_band_skewness", "get_band_kurtosis"} -> <<-15, 15>>
      [] fn = "get_band_width" -> <<-15, 0>>
      [] fn = "get_band_filling" -> << >>

C10_TenDescriptors ==
    Succeeded =>
        LET fns == {"get_band_center", "get_band_filling", "get_band_skewness",
                    "get_band_kurtosis", "get_band_width"}
            r == analysis_results.results
        IN  /\ Len(calls) = 10
            /\ \A fn \in fns : \A spin \in {"up", "down"} :
                  /\ Cardinality({i \in DOMAIN calls :
                        calls[i].fn = fn /\ calls[i].spin = spin}) = 1
                  /\ r[C10_Key(fn)][IF spin = "up" THEN "spin_up" ELSE "spin_down"]
                        = RetOf(fn, spin)
            /\ \A i \in DOMAIN calls :
                  /\ calls[i].fn \in fns
                  /\ ~calls[i].raised
                  /\ calls[i].sites = <<target_site>>
                  /\ calls[i].band = "d"
                  /\ calls[i].erange = C10_Window(calls[i].fn)
            /\ target_site = PyGetItem(crystal_structure, target_site_index)
            /\ r.site_index = target_site_index
            /\ r.site_element = target_site.species_string
            /\ r.fermi_energy = FileFermi

C10_Witness ==
    /\ Succeeded
    /\ entry = "direct" /\ target_site_index = 1
    /\ analysis_results.results.band_widths = [spin_up |-> 520000, spin_down |-> 410000]
    /\ analysis_results.results.band_skewness = [spin_up |-> -25000, spin_down |-> 31000]

====
